---- MODULE Spec2Model ----
(***************************************************************************)
(* A model of Majorizer.py: Krumhansl-Schmuckler key detection             *)
(* (analyseKey), the two transposition transforms (convertRelative,        *)
(* convertParallel) and the driver (main).                                  *)
(*                                                                          *)
(* MIDI messages are objects: a document's tracks hold references into a   *)
(* heap of messages, so that copying a message and sharing one are         *)
(* different things.  The correlation scores are Python floats: they are   *)
(* computed here in IEEE-754 binary64 with round-to-nearest-even, on       *)
(* multi-limb naturals, as numpy computes them.                            *)
(***************************************************************************)
EXTENDS Integers, Sequences, FiniteSets

(***************************************************************************)
(* Naturals of any size: little-endian sequences of limbs in base 2^15,    *)
(* without leading zero limbs (zero is the empty sequence).                *)
(***************************************************************************)
LimbBase == 32768

LimbBits == 15

RECURSIVE Pow2(_)
Pow2(k) == IF k = 0 THEN 1 ELSE 2 * Pow2(k - 1)

RECURSIVE BNorm(_)
BNorm(a) ==
  IF a = <<>> THEN <<>>
  ELSE IF a[Len(a)] = 0 THEN BNorm(SubSeq(a, 1, Len(a) - 1))
  ELSE a

RECURSIVE BFromInt(_)
BFromInt(n) ==
  IF n = 0 THEN <<>> ELSE <<n % LimbBase>> \o BFromInt(n \div LimbBase)

RECURSIVE BAddC(_, _, _)
BAddC(a, b, carry) ==
  IF a = <<>> /\ b = <<>> THEN (IF carry = 0 THEN <<>> ELSE <<carry>>)
  ELSE LET x == IF a = <<>> THEN 0 ELSE Head(a)
           y == IF b = <<>> THEN 0 ELSE Head(b)
           s == x + y + carry
       IN  <<s % LimbBase>>
             \o BAddC(IF a = <<>> THEN <<>> ELSE Tail(a),
                      IF b = <<>> THEN <<>> ELSE Tail(b),
                      s \div LimbBase)

BAdd(a, b) == BAddC(a, b, 0)

RECURSIVE BMulSmallC(_, _, _)
BMulSmallC(a, d, carry) ==
  IF a = <<>> THEN BFromInt(carry)
  ELSE LET s == Head(a) * d + carry
       IN  <<s % LimbBase>> \o BMulSmallC(Tail(a), d, s \div LimbBase)

\* a * d for a limb-sized d
BMulSmall(a, d) == BNorm(BMulSmallC(a, d, 0))

\* a * 2^15
BShiftLimb(a) == IF a = <<>> THEN <<>> ELSE <<0>> \o a

RECURSIVE BMul(_, _)
BMul(a, b) ==
  IF b = <<>> \/ a = <<>> THEN <<>>
  ELSE BAdd(BMulSmall(a, Head(b)), BShiftLimb(BMul(a, Tail(b))))

\* a \div d and a % d for d < 2^16: long division from the most significant
\* limb a[k] down, with the remainder so far and the quotient limbs so far
RECURSIVE BDivSmallR(_, _, _, _, _)
BDivSmallR(a, d, k, rem, quot) ==
  IF k = 0 THEN [q |-> quot, r |-> rem]
  ELSE BDivSmallR(a, d, k - 1, (rem * LimbBase + a[k]) % d,
                  <<(rem * LimbBase + a[k]) \div d>> \o quot)

BDivSmall(a, d) == BNorm(BDivSmallR(a, d, Len(a), 0, <<>>).q)

BModSmall(a, d) == BDivSmallR(a, d, Len(a), 0, <<>>).r

RECURSIVE Zeros(_)
Zeros(n) == IF n = 0 THEN <<>> ELSE <<0>> \o Zeros(n - 1)

\* a * 2^k
BShl(a, k) ==
  IF a = <<>> THEN <<>>
  ELSE Zeros(k \div LimbBits) \o BMulSmall(a, Pow2(k % LimbBits))

\* a \div 2^k
BShr(a, k) ==
  LET q == k \div LimbBits
  IN  IF q >= Len(a) THEN <<>>
      ELSE BDivSmall(SubSeq(a, q + 1, Len(a)), Pow2(k % LimbBits))

RECURSIVE IntBitLen(_)
IntBitLen(n) == IF n = 0 THEN 0 ELSE 1 + IntBitLen(n \div 2)

\* the number of bits of a
BLen(a) ==
  IF a = <<>> THEN 0 ELSE LimbBits * (Len(a) - 1) + IntBitLen(a[Len(a)])

BOdd(a) == a # <<>> /\ a[1] % 2 = 1

\* a < b, limbs compared from the most significant
RECURSIVE BLessFrom(_, _, _)
BLessFrom(a, b, k) ==
  IF k = 0 THEN FALSE
  ELSE IF a[k] # b[k] THEN a[k] < b[k]
  ELSE BLessFrom(a, b, k - 1)

BLess(a, b) ==
  IF Len(a) # Len(b) THEN Len(a) < Len(b) ELSE BLessFrom(a, b, Len(a))

(***************************************************************************)
(* IEEE-754 binary64, non-negative finite values: [m, e] stands for        *)
(* m * 2^e with m of exactly 53 bits, or zero (m empty).  Every value of   *)
(* the program is far from the subnormal and overflow ranges.              *)
(***************************************************************************)
MantBits == 53

FZero == [m |-> <<>>, e |-> 0]

\* n * 2^e rounded to the nearest double, ties to even
FRound(n, e) ==
  LET l == BLen(n)
  IN  IF l = 0 THEN FZero
      ELSE IF l <= MantBits
        THEN [m |-> BShl(n, MantBits - l), e |-> e - (MantBits - l)]
      ELSE LET k      == l - MantBits
               q      == BShr(n, k)
               half   == BOdd(BShr(n, k - 1))
               sticky == BShl(BShr(n, k - 1), k - 1) # n
               up     == half /\ (sticky \/ BOdd(q))
               q1     == IF up THEN BAdd(q, <<1>>) ELSE q
           IN  IF BLen(q1) > MantBits
                 THEN [m |-> BShr(q1, 1), e |-> e + k + 1]
                 ELSE [m |-> q1, e |-> e + k]

\* float(c) / float(d), and the literal c/d written in decimal (d = 100):
\* both are the double nearest to the rational c/d
FRatio(c, d) ==
  IF c = 0 THEN FZero
  ELSE LET n == BShl(BFromInt(c), 75)
           q == BDivSmall(n, d)
           r == BModSmall(n, d)
       IN  FRound(BAdd(BShl(q, 1), IF r = 0 THEN <<>> ELSE <<1>>), -76)

FMul(x, y) ==
  IF x.m = <<>> \/ y.m = <<>> THEN FZero
  ELSE FRound(BMul(x.m, y.m), x.e + y.e)

FAdd(x, y) ==
  IF x.m = <<>> THEN y
  ELSE IF y.m = <<>> THEN x
  ELSE LET e == IF x.e < y.e THEN x.e ELSE y.e
       IN  FRound(BAdd(BShl(x.m, x.e - e), BShl(y.m, y.e - e)), e)

\* x > y
FGreater(x, y) ==
  IF x.m = <<>> THEN FALSE
  ELSE IF y.m = <<>> THEN TRUE
  ELSE IF x.e # y.e THEN x.e > y.e
  ELSE BLess(y.m, x.m)

(***************************************************************************)
(* MIDI data.  A message is a record; for a polytouch message the          *)
(* velocity field holds its value byte.                                    *)
(***************************************************************************)
MaxPitch == 127

NoteOn(n, v, t) == [type |-> "note_on", note |-> n, velocity |-> v, time |-> t]

NoteOff(n, t) == [type |-> "note_off", note |-> n, velocity |-> 64, time |-> t]

PolyTouch(n, t) == [type |-> "polytouch", note |-> n, velocity |-> 0, time |-> t]

Min(a, b) == IF a < b THEN a ELSE b

\* what a file holds: the header fields and, per track, the messages
File(ty, tpb, trs) == [type |-> ty, ticks_per_beat |-> tpb, tracks |-> trs]

VARIABLES
  pc,            \* main's position
  finput,        \* the path chosen in the open dialog
  heap,          \* the message objects: a reference is an index
  nextId,        \* the next identity of a MidiFile or MidiTrack object
  midOriginal,   \* the loaded document, or None
  loaded,        \* what the input file held when it was loaded
  ti,            \* analyseKey: the track being walked (0: none yet)
  mi,            \* analyseKey: the next message of that track
  active,        \* analyseKey: note -> onset time, of the track
  currentTime,   \* analyseKey: the track's clock
  cpitchc,       \* analyseKey: pitch class -> duration
  totalDuration, \* analyseKey
  pitchClassHistogram, \* analyseKey: the twelve shares, as doubles
  majorProfile,  \* the module's list, as doubles
  minorProfile,  \* the module's list, as doubles
  tonicpc,       \* the detected tonic, or the argument of convertParallel
  mode,          \* the detected mode
  choice,        \* the last answer to the prompt
  midMajor,      \* the converted document, or None
  saved,         \* what was written to foutput, in order
  log            \* the steps main has taken, in order

vars == <<pc, finput, heap, nextId, midOriginal, loaded, ti, mi, active,
          currentTime, cpitchc, totalDuration, pitchClassHistogram,
          majorProfile, minorProfile, tonicpc, mode, choice, midMajor, saved,
          log>>

None == [id |-> 0]

(***************************************************************************)
(* mido.MidiFile(path): the object graph of a file.  Messages get the      *)
(* references 1, 2, ... in file order; the document and its tracks get     *)
(* identities from 1 on.                                                   *)
(***************************************************************************)
RECURSIVE Flatten(_)
Flatten(trs) == IF trs = <<>> THEN <<>> ELSE Head(trs) \o Flatten(Tail(trs))

RECURSIVE LoadTracks(_, _, _)
LoadTracks(trs, firstRef, firstId) ==
  IF trs = <<>> THEN <<>>
  ELSE <<[id |-> firstId,
          msgs |-> [k \in 1..Len(Head(trs)) |-> firstRef + k - 1]]>>
         \o LoadTracks(Tail(trs), firstRef + Len(Head(trs)), firstId + 1)

MidiFile(file) ==
  [heap |-> Flatten(file.tracks),
   doc  |-> [id |-> 1, type |-> file.type,
             ticks_per_beat |-> file.ticks_per_beat,
             tracks |-> LoadTracks(file.tracks, 1, 2)],
   nextId |-> 2 + Len(file.tracks)]

\* the messages of a document, by value
Content(h, doc) ==
  File(doc.type, doc.ticks_per_beat,
       [t \in 1..Len(doc.tracks) |->
          [k \in 1..Len(doc.tracks[t].msgs) |-> h[doc.tracks[t].msgs[k]]]])

(***************************************************************************)
(* analyseKey                                                              *)
(***************************************************************************)
PitchClasses == 0..11

\* the profiles' literals, in hundredths
majorProfile100 ==
  <<635, 223, 348, 233, 438, 409, 252, 519, 239, 366, 229, 288>>

minorProfile100 ==
  <<633, 268, 352, 538, 260, 353, 254, 475, 398, 269, 334, 317>>

\* a list of literals as Python reads it: the nearest doubles
Doubles(p) ==
  <<FRatio(p[1], 100), FRatio(p[2], 100), FRatio(p[3], 100), FRatio(p[4], 100),
    FRatio(p[5], 100), FRatio(p[6], 100), FRatio(p[7], 100), FRatio(p[8], 100),
    FRatio(p[9], 100), FRatio(p[10], 100), FRatio(p[11], 100),
    FRatio(p[12], 100)>>

EmptyActive == [n \in {} |-> 0]

ZeroPitchc == [c \in PitchClasses |-> 0]

\* the locals of analyseKey before the first track
AnalyseStart ==
  [active |-> EmptyActive, currentTime |-> 0, cpitchc |-> ZeroPitchc,
   totalDuration |-> 0]

\* fault: the onset table kept from one track to the next
AnalyseEnterTrackKeepingOnsets(st) == [st EXCEPT !.currentTime = 0]

\* the top of the loop over tracks: a new onset table and a new clock
AnalyseEnterTrack(st) ==
  [st EXCEPT !.active = EmptyActive, !.currentTime = 0]

IsNoteOnset(msg) == msg.type = "note_on" /\ msg.velocity > 0

IsNoteRelease(msg) ==
  msg.type = "note_off" \/ (msg.type = "note_on" /\ msg.velocity = 0)

\* fault: a second onset that does not replace the first
recordOnsetOnce(act, note, now) ==
  [n \in DOMAIN act \cup {note} |-> IF n \in DOMAIN act THEN act[n] ELSE now]

\* active[msg.note] = currentTime
recordOnset(act, note, now) ==
  [n \in DOMAIN act \cup {note} |-> IF n = note THEN now ELSE act[n]]

\* the body of the loop over a track's messages
AnalyseMsgStep(st, msg) ==
  LET now == st.currentTime + msg.time
  IN  IF IsNoteOnset(msg)
        THEN [st EXCEPT
                !.currentTime = now,
                !.active = recordOnset(st.active, msg.note, now)]
      ELSE IF IsNoteRelease(msg) /\ msg.note \in DOMAIN st.active
        THEN LET duration   == now - st.active[msg.note]
                 pitchClass == msg.note % 12
             IN  [st EXCEPT
                    !.currentTime = now,
                    !.cpitchc[pitchClass] = @ + duration,
                    !.totalDuration = @ + duration,
                    !.active = [n \in DOMAIN st.active \ {msg.note} |->
                                  st.active[n]]]
      ELSE [st EXCEPT !.currentTime = now]

\* fault: the profile rolled the other way
rollLeft(profile, i) == [k \in 1..12 |-> profile[((k - 1 + i) % 12) + 1]]

\* np.roll(profile, i), as a sequence indexed from 1
roll(profile, i) == [k \in 1..12 |-> profile[((k - 1 - i) % 12) + 1]]

\* np.dot of two 12-vectors of doubles: the sum of the products, left to right
RECURSIVE dotFrom(_, _, _, _)
dotFrom(x, y, k, sum) ==
  IF k > 12 THEN sum
  ELSE dotFrom(x, y, k + 1, FAdd(sum, FMul(x[k], y[k])))

dot(x, y) == dotFrom(x, y, 1, FZero)

\* [cpitchc[i] / totalDuration for i in range(12)]
histogram(pitchc, total) ==
  <<FRatio(pitchc[0], total), FRatio(pitchc[1], total),
    FRatio(pitchc[2], total), FRatio(pitchc[3], total),
    FRatio(pitchc[4], total), FRatio(pitchc[5], total),
    FRatio(pitchc[6], total), FRatio(pitchc[7], total),
    FRatio(pitchc[8], total), FRatio(pitchc[9], total),
    FRatio(pitchc[10], total), FRatio(pitchc[11], total)>>

\* the candidates in the order of the two nested loops: c = 2 * i + (0: major,
\* 1: minor)
CandidateKey(c) == <<c \div 2, IF c % 2 = 0 THEN "major" ELSE "minor">>

CandidateProfile(c) ==
  roll(IF c % 2 = 0 THEN majorProfile ELSE minorProfile, c \div 2)

\* the scoring loop from candidate c on; bestScore starts at -1, below every
\* correlation, which `first` stands for
RECURSIVE scoreFrom(_, _, _, _, _)
scoreFrom(hist, c, first, bestScore, detectedKey) ==
  IF c > 23 THEN detectedKey
  ELSE LET correlation == dot(hist, CandidateProfile(c))
       IN  IF first \/ FGreater(correlation, bestScore)
             THEN scoreFrom(hist, c + 1, FALSE, correlation, CandidateKey(c))
             ELSE scoreFrom(hist, c + 1, FALSE, bestScore, detectedKey)

\* fault: the fallback with the wrong mode
DefaultKeyMajor == <<0, "major">>

\* line 53 and line 56: (0, "minor")
DefaultKey == <<0, "minor">>

\* the scoring loop as a whole
bestKey(hist) == scoreFrom(hist, 0, TRUE, FZero, DefaultKey)

(***************************************************************************)
(* convertRelative and convertParallel.  Each returns the heap after the   *)
(* call, the new document and the next free identity.                      *)
(***************************************************************************)
IsNote(msg) == msg.type \in {"note_on", "note_off"}

\* fault: a copy that loses the delta time
copyWithoutTime(msg) == [msg EXCEPT !.time = 0]

\* msg.copy(): the fields of a new message object
copy(msg) == msg

\* fault: the shift without the clamp
relativeNoteUnclamped(note) == note + 3

\* min(127, newMsg.note + 3)
relativeNote(note) == Min(MaxPitch, note + 3)

\* min(127, msg.note + 1)
parallelNote(note) == Min(MaxPitch, note + 1)

\* fault: the minor seventh left out
transposedWithoutSeventh(tonic) == {(tonic + 3) % 12, (tonic + 8) % 12}

\* {m3, m6, m7}
transposed(tonic) == {(tonic + 3) % 12, (tonic + 8) % 12, (tonic + 10) % 12}

\* one turn of convertRelative's inner loop: the heap after it and the
\* reference appended to newTrack
relativeMsg(h, ref) ==
  LET h1     == Append(h, copy(h[ref]))
      newMsg == Len(h1)
  IN  [heap |-> IF IsNote(h1[newMsg])
                  THEN [h1 EXCEPT ![newMsg].note = relativeNote(@)]
                  ELSE h1,
       ref  |-> newMsg]

\* one turn of convertParallel's inner loop
parallelMsg(h, ref, tonic) ==
  IF IsNote(h[ref]) /\ (h[ref].note % 12) \in transposed(tonic)
    THEN [heap |-> Append(h, [copy(h[ref]) EXCEPT
                                !.note = parallelNote(h[ref].note)]),
          ref  |-> Len(h) + 1]
    ELSE [heap |-> h, ref |-> ref]

\* the inner loop from message k on; which = 1: relative, 2: parallel
RECURSIVE convertMsgs(_, _, _, _, _, _)
convertMsgs(which, tonic, h, refs, k, newTrack) ==
  IF k > Len(refs) THEN [heap |-> h, msgs |-> newTrack]
  ELSE LET r == IF which = 1 THEN relativeMsg(h, refs[k])
                ELSE parallelMsg(h, refs[k], tonic)
       IN  convertMsgs(which, tonic, r.heap, refs, k + 1,
                       Append(newTrack, r.ref))

\* the outer loop from track t on: each newTrack is a new MidiTrack
RECURSIVE convertTracks(_, _, _, _, _, _, _)
convertTracks(which, tonic, h, trs, t, nid, newTracks) ==
  IF t > Len(trs) THEN [heap |-> h, tracks |-> newTracks]
  ELSE LET r == convertMsgs(which, tonic, h, trs[t].msgs, 1, <<>>)
       IN  convertTracks(which, tonic, r.heap, trs, t + 1, nid + 1,
                         Append(newTracks, [id |-> nid, msgs |-> r.msgs]))

convert(which, tonic, h, mid, nid) ==
  LET r == convertTracks(which, tonic, h, mid.tracks, 1, nid + 1, <<>>)
  IN  [heap   |-> r.heap,
       doc    |-> [id |-> nid, type |-> mid.type,
                   ticks_per_beat |-> mid.ticks_per_beat,
                   tracks |-> r.tracks],
       nextId |-> nid + 1 + Len(mid.tracks)]

convertRelative(h, mid, nid) == convert(1, 0, h, mid, nid)

convertParallel(h, mid, tonic, nid) == convert(2, tonic, h, mid, nid)

(***************************************************************************)
(* The inputs: bounded families of MIDI files.                             *)
(***************************************************************************)
MaxTracks == 2

MaxTrackLen == 3

MaxEvents == 2

MaxDur == 2

\* the messages of the small files: onsets and releases of one pitch at
\* delta times 0 and 1, a note_on of velocity 0, a release of the same pitch
\* class an octave up, and a message that is no note
SmallMsgs ==
  {NoteOn(65, 64, 0), NoteOn(65, 64, 1), NoteOff(65, 1), NoteOff(65, 0),
   NoteOn(65, 0, 1), NoteOff(77, 1), PolyTouch(65, 1)}

SeqsUpTo(S, n) == UNION {[1..k -> S] : k \in 0..n}

\* the track lists of exactly n tracks that hold at most `budget` messages
RECURSIVE TrackLists(_, _)
TrackLists(n, budget) ==
  IF n = 0 THEN {<<>>}
  ELSE UNION {{<<t>> \o rest : rest \in TrackLists(n - 1, budget - Len(t))} :
                t \in SeqsUpTo(SmallMsgs, budget)}

\* over SmallMsgs: the file without tracks, every file of one track of at
\* most MaxTrackLen messages, and every file of 2..MaxTracks tracks of at
\* most MaxEvents messages in all
SmallFiles ==
  {File(1, 480, trs) :
     trs \in TrackLists(0, 0) \cup TrackLists(1, MaxTrackLen)
               \cup UNION {TrackLists(n, MaxEvents) : n \in 2..MaxTracks}}

\* one note of positive length, on every pitch
SingleNoteFiles ==
  {File(1, 480, <<<<NoteOn(p, 64, 0), NoteOff(p, d)>>>>) :
     p \in 0..MaxPitch, d \in 1..MaxDur}

ChordPitches == {60, 63, 65, 71}

\* two overlapping notes: the first sounds for d1, the second for d1 + d2
TwoNoteFiles ==
  {File(1, 480, <<<<NoteOn(p, 64, 0), NoteOn(q, 64, 0), NoteOff(p, d1),
                    NoteOff(q, d2)>>>>) :
     p \in ChordPitches, q \in ChordPitches, d1 \in 1..MaxDur, d2 \in 0..MaxDur}

\* one message, of every kind and on every pitch, under two headers
SingleMsgFiles ==
  {File(h[1], h[2], <<<<m>>>>) :
     h \in {<<0, 96>>, <<1, 480>>},
     m \in {NoteOn(p, 64, 1) : p \in 0..MaxPitch}
             \cup {NoteOff(p, 1) : p \in 0..MaxPitch}
             \cup {PolyTouch(p, 1) : p \in 0..MaxPitch}}

\* the files main is run on
Files == SmallFiles \cup SingleNoteFiles \cup TwoNoteFiles

Paths == {"", "notes.txt", "song.mid"}

\* finput and finput.lower().endswith(('.mid', '.midi'))
IsMidiPath(p) == p \in {"song.mid"}

Answers == {"1", "2", "3"}

(***************************************************************************)
(* main                                                                    *)
(***************************************************************************)
Init ==
  /\ majorProfile = Doubles(majorProfile100)
  /\ minorProfile = Doubles(minorProfile100)
  /\ pc = "start"
  /\ finput \in Paths
  /\ heap = <<>>
  /\ nextId = 1
  /\ midOriginal = None
  /\ loaded = File(1, 480, <<>>)
  /\ ti = 0
  /\ mi = 0
  /\ active = EmptyActive
  /\ currentTime = 0
  /\ cpitchc = ZeroPitchc
  /\ totalDuration = 0
  /\ pitchClassHistogram = <<>>
  /\ tonicpc = 0
  /\ mode = ""
  /\ choice = ""
  /\ midMajor = None
  /\ saved = <<>>
  /\ log = <<>>

analyseVars == <<ti, mi, active, currentTime, cpitchc, totalDuration,
                 pitchClassHistogram>>

profileVars == <<majorProfile, minorProfile>>

docVars == <<heap, nextId, midOriginal, loaded>>

\* lines 100-102
CheckInput ==
  /\ pc = "start"
  /\ pc' = IF IsMidiPath(finput) THEN "load" ELSE "done"
  /\ UNCHANGED <<finput, docVars, analyseVars, profileVars, tonicpc, mode,
                 choice, midMajor, saved, log>>

\* lines 104-106: the file parses
LoadOk ==
  /\ pc = "load"
  /\ \E file \in Files :
       LET g == MidiFile(file)
       IN  /\ heap' = g.heap
           /\ midOriginal' = g.doc
           /\ nextId' = g.nextId
           /\ loaded' = file
  /\ pc' = "analyse"
  /\ log' = Append(log, "load")
  /\ UNCHANGED <<finput, analyseVars, profileVars, tonicpc, mode, choice,
                 midMajor, saved>>

\* lines 107-109: mido raises
LoadFail ==
  /\ pc = "load"
  /\ pc' = "done"
  /\ log' = Append(log, "load failed")
  /\ UNCHANGED <<finput, docVars, analyseVars, profileVars, tonicpc, mode,
                 choice, midMajor, saved>>

\* no track entered yet, or the entered track's messages exhausted
AtTrackEnd ==
  IF ti = 0 THEN TRUE ELSE mi > Len(midOriginal.tracks[ti].msgs)

\* lines 38-40: the next track
AnalyseTrack ==
  /\ pc = "analyse"
  /\ AtTrackEnd
  /\ ti < Len(midOriginal.tracks)
  /\ LET st == AnalyseEnterTrack([active |-> active,
                                  currentTime |-> currentTime,
                                  cpitchc |-> cpitchc,
                                  totalDuration |-> totalDuration])
     IN  /\ active' = st.active
         /\ currentTime' = st.currentTime
  /\ ti' = ti + 1
  /\ mi' = 1
  /\ UNCHANGED <<pc, finput, docVars, cpitchc, totalDuration,
                 pitchClassHistogram, profileVars, tonicpc, mode, choice,
                 midMajor, saved, log>>

\* lines 41-51: the next message of the track
AnalyseMsg ==
  /\ pc = "analyse"
  /\ ti > 0
  /\ mi <= Len(midOriginal.tracks[ti].msgs)
  /\ LET st == AnalyseMsgStep([active |-> active,
                               currentTime |-> currentTime,
                               cpitchc |-> cpitchc,
                               totalDuration |-> totalDuration],
                              heap[midOriginal.tracks[ti].msgs[mi]])
     IN  /\ active' = st.active
         /\ currentTime' = st.currentTime
         /\ cpitchc' = st.cpitchc
         /\ totalDuration' = st.totalDuration
  /\ mi' = mi + 1
  /\ UNCHANGED <<pc, finput, docVars, ti, pitchClassHistogram, profileVars,
                 tonicpc, mode, choice, midMajor, saved, log>>

AnalyseLoopDone ==
  pc = "analyse" /\ AtTrackEnd /\ ti = Len(midOriginal.tracks)

\* line 53, then lines 112-114
AnalyseDefault ==
  /\ AnalyseLoopDone
  /\ totalDuration = 0
  /\ tonicpc' = DefaultKey[1]
  /\ mode' = DefaultKey[2]
  /\ pc' = "gate"
  /\ log' = Append(log, "analyse")
  /\ UNCHANGED <<finput, docVars, analyseVars, profileVars, choice, midMajor,
                 saved>>

\* line 54
AnalyseHistogram ==
  /\ AnalyseLoopDone
  /\ totalDuration # 0
  /\ pitchClassHistogram' = histogram(cpitchc, totalDuration)
  /\ pc' = "score"
  /\ UNCHANGED <<finput, docVars, ti, mi, active, currentTime, cpitchc,
                 totalDuration, profileVars, tonicpc, mode, choice, midMajor,
                 saved, log>>

\* lines 56-63, then lines 112-114
AnalyseScore ==
  /\ pc = "score"
  /\ LET detectedKey == bestKey(pitchClassHistogram)
     IN  /\ tonicpc' = detectedKey[1]
         /\ mode' = detectedKey[2]
  /\ pc' = "gate"
  /\ log' = Append(log, "analyse")
  /\ UNCHANGED <<finput, docVars, analyseVars, profileVars, choice, midMajor,
                 saved>>

\* fault: the gate that lets every mode through
RejectedNever(m) == FALSE

\* line 116
Rejected(m) == m # "minor"

\* lines 116-118
Gate ==
  /\ pc = "gate"
  /\ pc' = IF Rejected(mode) THEN "done" ELSE "choose"
  /\ UNCHANGED <<finput, docVars, analyseVars, profileVars, tonicpc, mode,
                 choice, midMajor, saved, log>>

\* lines 120-125: one turn of the prompt loop
Choose ==
  /\ pc = "choose"
  /\ \E answer \in Answers :
       /\ choice' = answer
       /\ pc' = IF answer \in {"1", "2"} THEN "convert" ELSE "choose"
       /\ log' = IF answer \in {"1", "2"} THEN Append(log, "choose") ELSE log
  /\ UNCHANGED <<finput, docVars, analyseVars, profileVars, tonicpc, mode,
                 midMajor, saved>>

Converted(r) ==
  /\ heap' = r.heap
  /\ nextId' = r.nextId
  /\ midMajor' = r.doc

\* lines 130-133
ConvertRelative ==
  /\ pc = "convert"
  /\ choice = "1"
  /\ Converted(convertRelative(heap, midOriginal, nextId))
  /\ pc' = "save"
  /\ log' = Append(log, "convertRelative")
  /\ UNCHANGED <<finput, midOriginal, loaded, analyseVars, profileVars,
                 tonicpc, mode, choice, saved>>

\* lines 134-137
ConvertParallel ==
  /\ pc = "convert"
  /\ choice = "2"
  /\ Converted(convertParallel(heap, midOriginal, tonicpc, nextId))
  /\ pc' = "save"
  /\ log' = Append(log, "convertParallel")
  /\ UNCHANGED <<finput, midOriginal, loaded, analyseVars, profileVars,
                 tonicpc, mode, choice, saved>>

\* lines 139-146: the file is written
SaveOk ==
  /\ pc = "save"
  /\ midMajor # None
  /\ saved' = Append(saved, Content(heap, midMajor))
  /\ pc' = "done"
  /\ log' = Append(log, "save")
  /\ UNCHANGED <<finput, docVars, analyseVars, profileVars, tonicpc, mode,
                 choice, midMajor>>

\* lines 147-148: save raises
SaveFail ==
  /\ pc = "save"
  /\ midMajor # None
  /\ pc' = "done"
  /\ log' = Append(log, "save failed")
  /\ UNCHANGED <<finput, docVars, analyseVars, profileVars, tonicpc, mode,
                 choice, midMajor, saved>>

Next ==
  \/ CheckInput
  \/ LoadOk
  \/ LoadFail
  \/ AnalyseTrack
  \/ AnalyseMsg
  \/ AnalyseDefault
  \/ AnalyseHistogram
  \/ AnalyseScore
  \/ Gate
  \/ Choose
  \/ ConvertRelative
  \/ ConvertParallel
  \/ SaveOk
  \/ SaveFail

Spec == Init /\ [][Next]_vars

(***************************************************************************)
(* The transforms called on their own: any file of ConvertFiles, and for   *)
(* convertParallel any tonic pitch class.                                  *)
(***************************************************************************)
ConvertFiles == SingleMsgFiles \cup SmallFiles

InitConvert ==
  /\ majorProfile = Doubles(majorProfile100)
  /\ minorProfile = Doubles(minorProfile100)
  /\ pc = "call"
  /\ finput = "song.mid"
  /\ \E file \in ConvertFiles :
       LET g == MidiFile(file)
       IN  /\ heap = g.heap
           /\ midOriginal = g.doc
           /\ nextId = g.nextId
           /\ loaded = file
  /\ tonicpc \in PitchClasses
  /\ ti = 0
  /\ mi = 0
  /\ active = EmptyActive
  /\ currentTime = 0
  /\ cpitchc = ZeroPitchc
  /\ totalDuration = 0
  /\ pitchClassHistogram = <<>>
  /\ mode = "minor"
  /\ choice = ""
  /\ midMajor = None
  /\ saved = <<>>
  /\ log = <<>>

\* convertRelative(midOriginal)
CallRelative ==
  /\ pc = "call"
  /\ Converted(convertRelative(heap, midOriginal, nextId))
  /\ pc' = "returned"
  /\ log' = Append(log, "convertRelative")
  /\ UNCHANGED <<finput, midOriginal, loaded, analyseVars, profileVars,
                 tonicpc, mode, choice, saved>>

\* convertParallel(midOriginal, tonicpc)
CallParallel ==
  /\ pc = "call"
  /\ Converted(convertParallel(heap, midOriginal, tonicpc, nextId))
  /\ pc' = "returned"
  /\ log' = Append(log, "convertParallel")
  /\ UNCHANGED <<finput, midOriginal, loaded, analyseVars, profileVars,
                 tonicpc, mode, choice, saved>>

NextConvert == CallRelative \/ CallParallel

SpecConvert == InitConvert /\ [][NextConvert]_vars

(***************************************************************************)
(* Vocabulary of the properties.                                           *)
(***************************************************************************)
\* the converted document, by value
Out == Content(heap, midMajor)

Logged(what) == \E i \in DOMAIN log : log[i] = what

Returned(transform) == midMajor # None /\ Logged(transform)

SameShape ==
  /\ Len(Out.tracks) = Len(loaded.tracks)
  /\ \A t \in DOMAIN loaded.tracks : Len(Out.tracks[t]) = Len(loaded.tracks[t])

\* the positions <<track, index>> of the input's messages
Positions ==
  UNION {{<<t, k>> : k \in DOMAIN loaded.tracks[t]} : t \in DOMAIN loaded.tracks}

In(p) == loaded.tracks[p[1]][p[2]]

OutAt(p) == Out.tracks[p[1]][p[2]]

NoteEvent(m) == m.type = "note_on" \/ m.type = "note_off"

\* the pitch classes a parallel conversion on tonic t is to raise
RaisedClasses(t) == {(t + 3) % 12, (t + 8) % 12, (t + 10) % 12}

(***************************************************************************)
(* C1, as claimed: after convertParallel a note's pitch differs from the   *)
(* input's if and only if its pitch class is one of (tonic+3)%12,          *)
(* (tonic+8)%12, (tonic+10)%12, and a changed pitch is min(127, pitch+1).  *)
(***************************************************************************)
C1_ChangedIffRaisedClass ==
  Returned("convertParallel") =>
    /\ SameShape
    /\ \A p \in Positions :
         NoteEvent(In(p)) =>
           /\ (OutAt(p).note # In(p).note)
                <=> (In(p).note % 12 \in RaisedClasses(tonicpc))
           /\ OutAt(p).note # In(p).note
                => OutAt(p).note = Min(127, In(p).note + 1)

(***************************************************************************)
(* C1, amended: after convertParallel a note whose pitch class is one of   *)
(* the three has pitch min(127, pitch + 1) and every other note keeps its  *)
(* pitch; so the pitch changes if and only if the class is one of the      *)
(* three and the pitch is below 127 (127 stays 127).                       *)
(***************************************************************************)
C1_ParallelPitch ==
  Returned("convertParallel") =>
    /\ SameShape
    /\ \A p \in Positions :
         NoteEvent(In(p)) =>
           /\ OutAt(p).note =
                IF In(p).note % 12 \in RaisedClasses(tonicpc)
                  THEN Min(127, In(p).note + 1) ELSE In(p).note
           /\ (OutAt(p).note # In(p).note)
                <=> (/\ In(p).note % 12 \in RaisedClasses(tonicpc)
                     /\ In(p).note < 127)

\* pitch 127 of a raised class went through convertParallel and stayed 127
C1_Witness ==
  /\ Returned("convertParallel")
  /\ SameShape
  /\ \E p \in Positions :
       /\ NoteEvent(In(p))
       /\ In(p).note = 127
       /\ In(p).note % 12 \in RaisedClasses(tonicpc)
       /\ OutAt(p).note = 127

(***************************************************************************)
(* C2: after convertRelative every note_on and note_off has pitch          *)
(* min(127, pitch + 3): 0..124 rise by 3, 125..127 become 127, and no      *)
(* pitch exceeds 127.                                                      *)
(***************************************************************************)
C2_RelativePitch ==
  Returned("convertRelative") =>
    /\ SameShape
    /\ \A p \in Positions :
         NoteEvent(In(p)) =>
           /\ In(p).note <= 124 => OutAt(p).note = In(p).note + 3
           /\ In(p).note >= 125 => OutAt(p).note = 127
           /\ OutAt(p).note <= 127

\* a pitch that would pass 127 went through convertRelative
C2_Witness ==
  /\ Returned("convertRelative")
  /\ SameShape
  /\ \E p \in Positions :
       NoteEvent(In(p)) /\ In(p).note = 125 /\ OutAt(p).note = 127

(***************************************************************************)
(* C3: both transforms keep ticks_per_beat, type, the tracks' number and   *)
(* order, each track's messages' number and order, every delta time and    *)
(* velocity, and every message that is no note; only the pitch of a        *)
(* note_on or note_off may differ.                                         *)
(***************************************************************************)
C3_OnlyPitchChanges ==
  midMajor # None =>
    /\ Out.ticks_per_beat = loaded.ticks_per_beat
    /\ Out.type = loaded.type
    /\ SameShape
    /\ \A p \in Positions :
         IF NoteEvent(In(p))
           THEN [OutAt(p) EXCEPT !.note = In(p).note] = In(p)
           ELSE OutAt(p) = In(p)
    /\ (\A p \in Positions : ~NoteEvent(In(p))) => Out = loaded

\* a transform returned on two tracks holding a changed note and a message
\* that is no note
C3_Witness ==
  /\ midMajor # None
  /\ SameShape
  /\ Len(loaded.tracks) = 2
  /\ \E p \in Positions : ~NoteEvent(In(p)) /\ In(p).time > 0
  /\ \E p \in Positions : NoteEvent(In(p)) /\ OutAt(p).note # In(p).note

TrackIds(doc) == {doc.tracks[t].id : t \in DOMAIN doc.tracks}

MessageRefs(doc) ==
  UNION {{doc.tracks[t].msgs[k] : k \in DOMAIN doc.tracks[t].msgs} :
           t \in DOMAIN doc.tracks}

(***************************************************************************)
(* C6, as claimed: after a transform the input document holds what it      *)
(* held, and the returned document, its tracks and its messages are        *)
(* objects other than the input's.                                         *)
(***************************************************************************)
C6_NewObjects ==
  midMajor # None =>
    /\ Content(heap, midOriginal) = loaded
    /\ midMajor.id # midOriginal.id
    /\ TrackIds(midMajor) \cap TrackIds(midOriginal) = {}
    /\ MessageRefs(midMajor) \cap MessageRefs(midOriginal) = {}

(***************************************************************************)
(* Vocabulary of the properties of analyseKey.                             *)
(***************************************************************************)
\* the messages of the track being walked, by value
CurMsgs == loaded.tracks[ti]

Onset(m, note) == m.type = "note_on" /\ m.velocity > 0 /\ m.note = note

Release(m) ==
  m.type = "note_off" \/ (m.type = "note_on" /\ m.velocity = 0)

\* in msgs, an onset of the note before position k that no release of the
\* note follows before k
Sounding(msgs, k, note) ==
  \E j \in 1..k - 1 :
    /\ Onset(msgs[j], note)
    /\ \A l \in j + 1..k - 1 : ~(Release(msgs[l]) /\ msgs[l].note = note)

\* the last onset of the note before position k
LastOnset(msgs, k, note) ==
  CHOOSE j \in 1..k - 1 :
    /\ Onset(msgs[j], note)
    /\ \A l \in j + 1..k - 1 : ~Onset(msgs[l], note)

RECURSIVE SumTimes(_, _, _)
SumTimes(msgs, from, to) ==
  IF from > to THEN 0 ELSE msgs[from].time + SumTimes(msgs, from + 1, to)

\* this step handles message mi of track ti
HandlesMsg ==
  /\ pc = "analyse"
  /\ ti > 0
  /\ mi <= Len(CurMsgs)
  /\ mi' = mi + 1

\* analyseKey has returned
Analysed == Logged("analyse")

\* the scores in exact arithmetic: from the profiles' literals in hundredths
RECURSIVE ExactScoreFrom(_, _, _, _)
ExactScoreFrom(h, profile100, t, i) ==
  IF i > 11 THEN 0
  ELSE h[i] * profile100[((i - t) % 12) + 1]
         + ExactScoreFrom(h, profile100, t, i + 1)

\* 100 * totalDuration * score of candidate c = 2 * tonic + (0: major, 1: minor)
ExactScore(h, c) ==
  ExactScoreFrom(h, IF c % 2 = 0 THEN majorProfile100 ELSE minorProfile100,
                 c \div 2, 0)

ExactBest(h) ==
  LET c == CHOOSE c \in 0..23 :
             \A d \in 0..23 :
               \/ ExactScore(h, c) > ExactScore(h, d)
               \/ ExactScore(h, c) = ExactScore(h, d) /\ c <= d
  IN  <<c \div 2, IF c % 2 = 0 THEN "major" ELSE "minor">>

(***************************************************************************)
(* C4, as claimed: with totalDuration > 0 analyseKey returns the pair      *)
(* that maximises the sum over i of h[i] * profile[(i - t) mod 12], the    *)
(* first such pair in the order tonic 0..11, major before minor.  The      *)
(* scores are compared exactly: times 100 * totalDuration they are sums of *)
(* integers.                                                               *)
(***************************************************************************)
C4_FirstMaximalScore ==
  (Analysed /\ totalDuration > 0) =>
    /\ tonicpc \in 0..11
    /\ mode \in {"major", "minor"}
    /\ <<tonicpc, mode>> = ExactBest(cpitchc)

(***************************************************************************)
(* C5: on a document whose totalDuration is 0 analyseKey returns pitch     *)
(* class 0, minor, and never reaches the division by totalDuration.        *)
(***************************************************************************)
C5_SilentDefault ==
  /\ (Analysed /\ totalDuration = 0) => (tonicpc = 0 /\ mode = "minor")
  /\ pc = "score" => totalDuration # 0

\* analyseKey returned on a track whose only note has length zero
C5_Witness ==
  /\ pc = "gate"
  /\ totalDuration = 0
  /\ loaded.tracks = <<<<NoteOn(65, 64, 1), NoteOff(65, 0)>>>>

(***************************************************************************)
(* C7: a note_off, or a note_on of velocity 0, for a pitch without an      *)
(* unmatched onset earlier in the same track adds nothing to any pitch     *)
(* class or to totalDuration and leaves the onset table as it is; an onset *)
(* of another track does not count.                                        *)
(***************************************************************************)
C7_UnmatchedReleaseIgnored ==
  [][(/\ HandlesMsg
      /\ Release(CurMsgs[mi])
      /\ ~Sounding(CurMsgs, mi, CurMsgs[mi].note))
       => (/\ cpitchc' = cpitchc
           /\ totalDuration' = totalDuration
           /\ active' = active
           /\ pc' = "analyse")]_vars

\* the second track's release of a pitch that only the first track started
\* has been handled
C7_Witness ==
  /\ pc = "analyse"
  /\ ti = 2
  /\ mi = 2
  /\ loaded.tracks[1] = <<NoteOn(65, 64, 0)>>
  /\ loaded.tracks[2] = <<NoteOff(65, 1)>>
  /\ totalDuration = 0
  /\ active = EmptyActive

C10_SingleClassIsMajor ==
  \A p \in 0..11 :
    (Analysed /\ totalDuration > 0 /\ cpitchc[p] = totalDuration) =>
      /\ tonicpc = p
      /\ mode = "major"
      /\ pc \in {"gate", "done"}
      /\ midMajor = None
      /\ saved = <<>>

\* main has stopped on a file whose one note is pitch 127, of class 7
C10_Witness ==
  /\ pc = "done"
  /\ Analysed
  /\ totalDuration > 0
  /\ cpitchc[7] = totalDuration
  /\ loaded.tracks = <<<<NoteOn(127, 64, 0), NoteOff(127, 2)>>>>
  /\ tonicpc = 7

Count(what) == Cardinality({i \in DOMAIN log : log[i] \in what})

(***************************************************************************)
(* C8: main saves at most once, and only after the load, the analysis      *)
(* with mode minor, the choice of 1 or 2 and the whole conversion, in that *)
(* order; when the mode is major or the load fails nothing is converted or *)
(* saved; neither the load nor the save is tried twice.                    *)
(***************************************************************************)
C8_SaveOnlyAfterConversion ==
  /\ Len(saved) <= 1
  /\ Count({"load", "load failed"}) <= 1
  /\ Count({"save", "save failed"}) <= 1
  /\ Count({"save", "save failed"}) = 1 =>
       /\ Len(log) = 5
       /\ log[1] = "load"
       /\ log[2] = "analyse"
       /\ log[3] = "choose"
       /\ log[4] = (IF choice = "1" THEN "convertRelative" ELSE "convertParallel")
       /\ choice \in {"1", "2"}
       /\ mode = "minor"
       /\ midMajor # None
       /\ Len(midMajor.tracks) = Len(midOriginal.tracks)
  /\ saved # <<>> => (log[5] = "save" /\ saved[1] = Out)
  /\ (mode = "major" \/ Logged("load failed")) =>
       /\ ~Logged("convertRelative")
       /\ ~Logged("convertParallel")
       /\ midMajor = None
       /\ saved = <<>>
       /\ Count({"save", "save failed"}) = 0

\* main has saved a parallel conversion
C8_Witness ==
  /\ pc = "done"
  /\ Len(saved) = 1
  /\ choice = "2"
  /\ totalDuration > 0

====
